---- MODULE Spec2Model ----
(***************************************************************************)
(* Verification model of the search result model of the workbench:        *)
(*   - PathTrie (vs/base/common/pathTrie)                                  *)
(*   - TextSearchHeadingImpl / PlainTextSearchHeadingImpl                  *)
(*   - SearchResultImpl                                                    *)
(* Path strings are sequences of one-character strings, so that the       *)
(* splitting done by toSegments is modelled by what it does.               *)
(***************************************************************************)
EXTENDS Integers, Sequences, FiniteSets, TLC

VARIABLES nodes, last,            \* the PathTrie
          fms, hd, gen,           \* the search result model
          emitter, calls, batch,  \* change emitter, replace calls, batchReplace
          listener,               \* the onChange listener of the search result
          group,                  \* the editor group under the filtered models
          issue                   \* the IssueFormService and its windows

trieVars == <<nodes, last>>
searchVars == <<fms, hd, gen, emitter, calls, batch, listener>>
vars == <<nodes, last, fms, hd, gen, emitter, calls, batch, listener, group, issue>>

(***************************************************************************)
(* Bounds of the PathTrie model.                                           *)
(***************************************************************************)
MaxLen == 3      \* longest path string, in characters
MaxNodes == 3    \* most non-root nodes alive in the trie

Letters == {"a", "b"}
Seps == {"/", "\\"}
Chars == Letters \cup Seps
\* the payloads of a PathTrie<number>: a falsy one and a truthy one
Values == {0, 1}

\* the value of an unset `data` field and of a failed `get`
Undefined == -1
\* the value of an unset `prev` field and of a failed findNode
NoNode == <<"">>

RECURSIVE StringsUpTo(_)
StringsUpTo(n) ==
  IF n = 0 THEN {<<>>}
  ELSE LET shorter == StringsUpTo(n - 1)
       IN  shorter \cup {Append(s, c) : s \in {t \in shorter : Len(t) = n - 1}, c \in Chars}

(***************************************************************************)
(* String.prototype.split(/[\\/]/): the pieces between separators, empty   *)
(* pieces included ("" splits into [""]).                                  *)
(***************************************************************************)
RECURSIVE splitFrom(_, _, _, _)
splitFrom(path, i, piece, acc) ==
  IF i > Len(path) THEN Append(acc, piece)
  ELSE IF path[i] \in Seps THEN splitFrom(path, i + 1, "", Append(acc, piece))
  ELSE splitFrom(path, i + 1, piece \o path[i], acc)

split(path) == splitFrom(path, 1, "", <<>>)

\* a mutant of toSegments: splits on the forward slash only
RECURSIVE splitSlashFrom(_, _, _, _)
splitSlashFrom(path, i, piece, acc) ==
  IF i > Len(path) THEN Append(acc, piece)
  ELSE IF path[i] = "/" THEN splitSlashFrom(path, i + 1, "", Append(acc, piece))
  ELSE splitSlashFrom(path, i + 1, piece \o path[i], acc)

toSegmentsSlashOnly(path) ==
  SelectSeq(splitSlashFrom(path, 1, "", <<>>), LAMBDA s : s # "")

\* path.split(/[\\/]/).filter(path => !!path), tabulated once for the strings of
\* the model
splitAndFilter ==
  [p \in StringsUpTo(MaxLen) |-> SelectSeq(split(p), LAMBDA s : s # "")]

\* PathTrie.toSegments
toSegments(path) == splitAndFilter[path]

(***************************************************************************)
(* The heap of PathTrieNode objects.  A node is named by the position at   *)
(* which ensureNode created it (the root is <<>>); the operations never    *)
(* use the name, they follow `next` and `prev`.  `next` is a Map, kept     *)
(* here as the sequence of its entries in insertion order; an absent map   *)
(* and an empty map behave alike under `?.` and are both <<>>.             *)
(***************************************************************************)
Root == <<>>

newNode(prevNode) == [prev |-> prevNode, next |-> <<>>, data |-> Undefined]

\* Map.get on a `next` map: the child stored under segment, or NoNode
RECURSIVE mapGetFrom(_, _, _)
mapGetFrom(next, segment, i) ==
  IF i > Len(next) THEN NoNode
  ELSE IF next[i].key = segment THEN next[i].node
  ELSE mapGetFrom(next, segment, i + 1)

mapGet(next, segment) == mapGetFrom(next, segment, 1)

\* Map.delete on a `next` map
mapDelete(next, segment) == SelectSeq(next, LAMBDA e : e.key # segment)

\* the nodes reachable from the root: all others are garbage
RECURSIVE reachableFrom(_, _)
reachableFrom(t, n) ==
  {n} \cup UNION {reachableFrom(t, t[n].next[i].node) : i \in 1 .. Len(t[n].next)}

collect(t) == [n \in reachableFrom(t, Root) |-> t[n]]

\* PathTrie.ensureNode: the loop from segment i on, at node cur
RECURSIVE ensureNodeFrom(_, _, _, _)
ensureNodeFrom(t, segments, i, cur) ==
  IF i > Len(segments) THEN [t |-> t, cur |-> cur]
  ELSE LET segment == segments[i]
           child == mapGet(t[cur].next, segment)
       IN  IF child = NoNode
           THEN LET fresh == Append(cur, segment)
                    t2 == [n \in DOMAIN t \cup {fresh} |->
                             IF n = fresh THEN newNode(cur)
                             ELSE IF n = cur
                               THEN [t[cur] EXCEPT !.next =
                                      Append(@, [key |-> segment, node |-> fresh])]
                             ELSE t[n]]
                IN  ensureNodeFrom(t2, segments, i + 1, fresh)
           ELSE ensureNodeFrom(t, segments, i + 1, child)

\* a mutant of ensureNode: walks the first segment only
ensureNodeFirstSegment(t, path) ==
  LET segments == toSegments(path)
  IN  ensureNodeFrom(t, IF segments = <<>> THEN <<>> ELSE <<segments[1]>>, 1, Root)

ensureNode(t, path) == ensureNodeFrom(t, toSegments(path), 1, Root)

\* PathTrie.set
set(t, path, data) ==
  LET r == ensureNode(t, path)
  IN  [r.t EXCEPT ![r.cur].data = data]

\* the walk shared by findNode, delete and findSuperstr
RECURSIVE walkFrom(_, _, _, _)
walkFrom(t, segments, i, cur) ==
  IF i > Len(segments) THEN cur
  ELSE LET child == mapGet(t[cur].next, segments[i])
       IN  IF child = NoNode THEN NoNode
           ELSE walkFrom(t, segments, i + 1, child)

\* PathTrie.findNode
findNode(t, path) == walkFrom(t, toSegments(path), 1, Root)

\* PathTrie.get
get(t, path) ==
  LET n == findNode(t, path)
  IN  IF n = NoNode THEN Undefined ELSE t[n].data

\* a mutant of delete: clears the payload and keeps the node
deleteDataOnly(t, path) ==
  LET cur == walkFrom(t, toSegments(path), 1, Root)
  IN  IF cur = NoNode THEN t ELSE [t EXCEPT ![cur].data = Undefined]

\* PathTrie.delete
delete(t, path) ==
  LET segments == toSegments(path)
      cur == walkFrom(t, segments, 1, Root)
  IN  IF cur = NoNode THEN t
      ELSE IF t[cur].prev = NoNode THEN t
      ELSE collect([t EXCEPT ![t[cur].prev].next =
                      mapDelete(@, segments[Len(segments)])])

\* `if (cur.data)`: undefined and 0 are falsy
truthy(data) == data # Undefined /\ data # 0

\* PathTrie.findSubstr: the sequence of the values it yields
RECURSIVE findSubstrFrom(_, _, _, _, _)
findSubstrFrom(t, segments, i, cur, out) ==
  IF i > Len(segments) THEN out
  ELSE LET child == mapGet(t[cur].next, segments[i])
       IN  IF child = NoNode THEN out
           ELSE findSubstrFrom(t, segments, i + 1, child,
                  IF truthy(t[child].data) THEN Append(out, t[child].data) ELSE out)

findSubstr(t, path) == findSubstrFrom(t, toSegments(path), 1, Root, <<>>)

\* PathTrie.visitAll: the sequence of the values it yields
RECURSIVE visitAll(_, _)
RECURSIVE visitChildren(_, _, _)
visitChildren(t, next, i) ==
  IF i > Len(next) THEN <<>>
  ELSE visitAll(t, next[i].node) \o visitChildren(t, next, i + 1)

visitAll(t, node) ==
  (IF truthy(t[node].data) THEN <<t[node].data>> ELSE <<>>)
    \o visitChildren(t, t[node].next, 1)

\* PathTrie.findSuperstr: the sequence of the values it yields
findSuperstr(t, path) ==
  LET cur == walkFrom(t, toSegments(path), 1, Root)
  IN  IF cur = NoNode THEN <<>>
      ELSE IF findNode(t, path) # NoNode THEN visitAll(t, cur)
      ELSE <<>>

(***************************************************************************)
(* The PathTrie as a state machine.  The callers' path strings are the     *)
(* strings of at most MaxLen characters whose segments are single letters. *)
(***************************************************************************)
PathStrings ==
  {s : s \in {p \in StringsUpTo(MaxLen) : \A i \in 1 .. Len(p) - 1 :
      ~(p[i] \in Letters /\ p[i + 1] \in Letters)}}

\* the path strings the actions are called with: no leading, trailing or
\* doubled separator (the other spellings are covered by SeparatorAgnostic)
PathInputs ==
  {s : s \in {p \in PathStrings :
      /\ p # <<>> => (p[1] \in Letters /\ p[Len(p)] \in Letters)
      /\ \A i \in 1 .. Len(p) - 1 : ~(p[i] \in Seps /\ p[i + 1] \in Seps)}}

\* the spellings with "/" only: one path string per key
SlashPaths == {s : s \in {p \in PathInputs : \A i \in 1 .. Len(p) : p[i] # "\\"}}

TrieInit ==
  /\ nodes = [n \in {Root} |-> newNode(NoNode)]
  /\ last = "new"

DoSet(path, data) ==
  /\ Cardinality(DOMAIN ensureNode(nodes, path).t) <= MaxNodes + 1
  /\ nodes' = set(nodes, path, data)
  /\ last' = "set"
  /\ UNCHANGED <<searchVars, group, issue>>

DoDelete(path) ==
  /\ nodes' = delete(nodes, path)
  /\ last' = "delete"
  /\ UNCHANGED <<searchVars, group, issue>>

\* the three queries return a value and leave the trie as it is
DoGet(path) ==
  /\ get(nodes, path) \in Values \cup {Undefined}
  /\ UNCHANGED vars

DoFindSubstr(path) ==
  /\ Len(findSubstr(nodes, path)) <= Len(toSegments(path))
  /\ UNCHANGED vars

DoFindSuperstr(path) ==
  /\ Len(findSuperstr(nodes, path)) <= Cardinality(DOMAIN nodes)
  /\ UNCHANGED vars

TrieNext ==
  \/ \E path \in PathInputs, data \in Values : DoSet(path, data)
  \/ \E path \in PathInputs : DoDelete(path)
  \/ \E path \in PathInputs : DoGet(path)
  \/ \E path \in PathInputs : DoFindSubstr(path)
  \/ \E path \in PathInputs : DoFindSuperstr(path)

(***************************************************************************)
(* What the claims mean by a path's key: the maximal runs of characters    *)
(* that are not separators, in order.                                      *)
(***************************************************************************)
RunStarts(p) ==
  {i \in 1 .. Len(p) : p[i] \notin Seps /\ (i = 1 \/ p[i - 1] \in Seps)}

RECURSIVE RunAt(_, _)
RunAt(p, i) ==
  IF i > Len(p) \/ p[i] \in Seps THEN "" ELSE p[i] \o RunAt(p, i + 1)

RECURSIVE RunsFrom(_, _)
RunsFrom(p, i) ==
  IF i > Len(p) THEN <<>>
  ELSE IF i \in RunStarts(p) THEN <<RunAt(p, i)>> \o RunsFrom(p, i + 1)
  ELSE RunsFrom(p, i + 1)

KeyOf == [p \in PathStrings |-> RunsFrom(p, 1)]

IsPrefix(k, l) == Len(k) <= Len(l) /\ SubSeq(l, 1, Len(k)) = k
IsProperPrefix(k, l) == Len(k) < Len(l) /\ SubSeq(l, 1, Len(k)) = k

HasNode(t, p) == findNode(t, p) # NoNode

\* C2: after set(P1, v1) and set(P2, v2) on paths with different keys, in
\* either order, get(P1) is v1 and get(P2) is v2; a set leaves get of every
\* other path as it was, every path is absent in a new trie and no delete makes
\* a path present (so a path that was never set, a waypoint included, is absent).
SetThenGet ==
  /\ last = "new" => \A q \in PathInputs : get(nodes, q) = Undefined
  /\ \A p1, p2 \in SlashPaths : KeyOf[p1] # KeyOf[p2] =>
       \A v1, v2 \in Values :
         LET t12 == set(set(nodes, p1, v1), p2, v2)
         IN  get(t12, p1) = v1 /\ get(t12, p2) = v2
  /\ \A p, q \in SlashPaths : KeyOf[p] # KeyOf[q] =>
       /\ get(set(nodes, p, 0), q) = get(nodes, q)
       /\ get(delete(nodes, p), q) \in {get(nodes, q), Undefined}

\* C2 witness: two paths hold different values and their common prefix, a
\* waypoint that was never set, is absent
SetThenGetWitness ==
  /\ get(nodes, <<"a", "/", "a">>) = 1
  /\ get(nodes, <<"a", "/", "b">>) = 0
  /\ HasNode(nodes, <<"a">>)
  /\ get(nodes, <<"a">>) = Undefined

\* the node a key leads to, by the `next` maps from the root
NodeAt(t, key) == walkFrom(t, key, 1, Root)

\* C3: set(P, v), then delete(P), then get(P) returns absent, for every path
\* P (the empty path included) and every value v.
RoundTrip ==
  \A p \in PathInputs, v \in Values :
    get(delete(set(nodes, p, v), p), p) = Undefined

\* the payloads of the nodes at the non-empty prefixes of key, from prefix i
\* on, up to the longest prefix that has a node; a node bears a payload when
\* its data is set
RECURSIVE PrefixPayloads(_, _, _)
PrefixPayloads(t, key, i) ==
  IF i > Len(key) \/ NodeAt(t, SubSeq(key, 1, i)) = NoNode THEN <<>>
  ELSE LET n == NodeAt(t, SubSeq(key, 1, i))
       IN  (IF t[n].data # Undefined THEN <<t[n].data>> ELSE <<>>)
             \o PrefixPayloads(t, key, i + 1)

\* C4: findSubstr(P) yields, in root-to-leaf order, exactly the payloads of the
\* payload-bearing nodes at the prefixes of P's key, up to the longest prefix
\* that exists, and nothing when no prefix exists.
FindSubstrExact ==
  \A p \in PathInputs : findSubstr(nodes, p) = PrefixPayloads(nodes, KeyOf[p], 1)

\* the payload-bearing nodes of the subtree of n, a node before its
\* descendants, the children in the order of the `next` map
RECURSIVE PreOrder(_, _)
RECURSIVE PreOrderOfChildren(_, _, _)
PreOrderOfChildren(t, next, i) ==
  IF i > Len(next) THEN <<>>
  ELSE PreOrder(t, next[i].node) \o PreOrderOfChildren(t, next, i + 1)

PreOrder(t, n) ==
  (IF t[n].data # Undefined THEN <<n>> ELSE <<>>)
    \o PreOrderOfChildren(t, t[n].next, 1)

\* C5: findSuperstr(P) yields the payload of each payload-bearing node of the
\* subtree at P once, a node before its descendants, and nothing when P has no
\* node.
FindSuperstrExact ==
  \A p \in PathInputs :
    LET n == NodeAt(nodes, KeyOf[p])
        out == findSuperstr(nodes, p)
    IN  IF n = NoNode THEN out = <<>>
        ELSE LET bearing == PreOrder(nodes, n)
             IN  out = [i \in 1 .. Len(bearing) |-> nodes[bearing[i]].data]

\* C6: two path strings with the same key give the same result in set, get,
\* delete, findSubstr and findSuperstr.
SeparatorAgnostic ==
  \A p \in PathStrings, q \in SlashPaths : KeyOf[p] = KeyOf[q] =>
    /\ get(nodes, p) = get(nodes, q)
    /\ findSubstr(nodes, p) = findSubstr(nodes, q)
    /\ findSuperstr(nodes, p) = findSuperstr(nodes, q)
    /\ delete(nodes, p) = delete(nodes, q)
    /\ \A v \in Values : set(nodes, p, v) = set(nodes, q, v)

\* C6 witness: a value set under the "/" spelling is read under the "\" one
SeparatorAgnosticWitness ==
  /\ last = "set"
  /\ get(nodes, <<"a", "/", "b">>) = 1
  /\ get(nodes, <<"a", "\\", "b">>) = 1

\* C7: delete(P) on a non-root path that has a node removes P and every path
\* extending P and leaves get of every other path as it was; delete(P) on a
\* path without a node leaves the trie unchanged.
DeleteDetachesSubtree ==
  \A p \in SlashPaths : KeyOf[p] # <<>> =>
    LET t2 == delete(nodes, p)
    IN  IF HasNode(nodes, p)
        THEN \A q \in SlashPaths :
               IF IsPrefix(KeyOf[p], KeyOf[q])
               THEN get(t2, q) = Undefined /\ ~HasNode(t2, q)
               ELSE get(t2, q) = get(nodes, q) /\ (HasNode(t2, q) <=> HasNode(nodes, q))
        ELSE t2 = nodes

\* C7 witness: a delete has detached a/b; its parent a and its sibling a/a keep
\* their payloads
DeleteDetachesSubtreeWitness ==
  /\ last = "delete"
  /\ ~HasNode(nodes, <<"a", "/", "b">>)
  /\ get(nodes, <<"a">>) = 1
  /\ get(nodes, <<"a", "/", "a">>) = 1

(***************************************************************************)
(* The search result model: SearchResultImpl owns a plain-text heading and *)
(* an AI heading; a heading owns one FolderMatch per folder query and the  *)
(* "other files" FolderMatch.  URIs are sequences of path segments.  A     *)
(* FolderMatch is named <<heading, generation, index>>, the generation     *)
(* being a number no FolderMatch that is still referenced carries.         *)
(***************************************************************************)

\* PLAIN_TEXT_SEARCH__RESULT_ID and AI_TEXT_SEARCH_RESULT_ID
PlainId == "plain"
AiId == "ai"
Headings == {PlainId, AiId}

\* a TextSearchHeadingImpl constructed with _allowOtherResults = false, on its
\* own (the search result constructs both of its headings with true)
LoneId == "lone"
AllHeadings == Headings \cup {LoneId}

\* a null resource, a null FolderMatch, a null query
NoResource == <<>>
NoFm == <<"none", 0, 0>>
NullQuery == [null |-> TRUE, folderQueries |-> <<>>]
Query(folders) == [null |-> FALSE, folderQueries |-> folders]

RootW == <<"w">>
FileInW == <<"w", "f">>
FileOutside == <<"x", "h">>
Files == {FileInW, FileOutside}
Queries == {Query(<<RootW>>), NullQuery}

\* the raw matches of the search provider: a file and the ranges found in it
RawInW == [resource |-> FileInW, matches |-> {1, 2}]
RawOutside == [resource |-> FileOutside, matches |-> {1}]
RawBatches == {<<RawInW>>, <<RawOutside>>, <<RawInW, RawOutside>>}

\* the elements of the result tree (RenderableMatch)
HeadingElem(h) == [kind |-> "heading", h |-> h, fm |-> NoFm, uri |-> NoResource, m |-> 0]
FolderElem(id) == [kind |-> "folder", h |-> id[1], fm |-> id, uri |-> NoResource, m |-> 0]
FileElem(id, uri) == [kind |-> "file", h |-> id[1], fm |-> id, uri |-> uri, m |-> 0]
MatchElem(id, uri, m) == [kind |-> "match", h |-> id[1], fm |-> id, uri |-> uri, m |-> m]
SearchResultElem == [kind |-> "searchResult", h |-> "", fm |-> NoFm, uri |-> NoResource, m |-> 0]

isTextSearchHeading(e) == e.kind = "heading"
isFolderMatch(e) == e.kind = "folder"
isFileInstanceMatch(e) == e.kind = "file"
isSearchMatch(e) == e.kind = "match"
isSearchResult(e) == e.kind = "searchResult"

\* element.parent()
parent(e) ==
  CASE e.kind = "match" -> FileElem(e.fm, e.uri)
    [] e.kind = "file" -> FolderElem(e.fm)
    [] e.kind = "folder" -> HeadingElem(e.h)
    [] OTHER -> SearchResultElem

\* Array.includes
includes(array, e) == \E i \in 1 .. Len(array) : array[i] = e

\* arrayContainsElementOrParent: the element or one of its ancestors below the
\* search result is in the array
RECURSIVE arrayContainsElementOrParent(_, _)
arrayContainsElementOrParent(element, testArray) ==
  IF includes(testArray, element) THEN TRUE
  ELSE IF isSearchResult(parent(element)) THEN FALSE
  ELSE arrayContainsElementOrParent(parent(element), testArray)

\* a map without entries
EmptyMap == [x \in {} |-> {}]

\* a new FolderMatch (FolderMatchWorkspaceRootImpl, FolderMatchNoRootImpl)
newFolderMatch(resource) ==
  [resource |-> resource, files |-> EmptyMap, disposed |-> FALSE, replacingAll |-> FALSE]

\* a new heading (TextSearchHeadingImpl field initialisers)
newHeading ==
  [folderMatches |-> <<>>, otherFilesMatch |-> NoFm, folderMatchesMap |-> EmptyMap,
   query |-> NullQuery, hidden |-> FALSE, pastArmed |-> FALSE, past |-> <<>>,
   isDisposed |-> FALSE, isDirty |-> FALSE]

\* the constructor argument _allowOtherResults of both headings
allowOtherResults(h) == h # LoneId

isPrefixOf(k, l) == Len(k) <= Len(l) /\ SubSeq(l, 1, Len(k)) = k

\* TernarySearchTree.findSubstr: the value of the longest key that is a prefix
\* of the resource
mapFindSubstr(map, resource) ==
  LET keys == {k \in DOMAIN map : isPrefixOf(k, resource)}
  IN  IF keys = {} THEN NoFm
      ELSE map[CHOOSE k \in keys : \A l \in keys : Len(l) <= Len(k)]

\* TextSearchHeadingImpl.getFolderMatch
getFolderMatch(st, h, resource) ==
  LET folderMatch == mapFindSubstr(st.hd[h].folderMatchesMap, resource)
  IN  IF folderMatch = NoFm /\ allowOtherResults(h) /\ st.hd[h].otherFilesMatch # NoFm
      THEN st.hd[h].otherFilesMatch
      ELSE folderMatch

\* TextSearchHeadingImpl.folderMatches
folderMatches(st, h) ==
  IF st.hd[h].otherFilesMatch # NoFm /\ allowOtherResults(h)
  THEN Append(st.hd[h].folderMatches, st.hd[h].otherFilesMatch)
  ELSE st.hd[h].folderMatches

\* the sum of f[x] over the finite set S
RECURSIVE SumOver(_, _)
SumOver(f, S) ==
  IF S = {} THEN 0
  ELSE LET x == CHOOSE y \in S : TRUE IN f[x] + SumOver(f, S \ {x})

\* FolderMatch: the count of matches and of file matches
folderMatchCount(fm) ==
  SumOver([u \in DOMAIN fm.files |-> Cardinality(fm.files[u])], DOMAIN fm.files)
folderMatchFileCount(fm) == Cardinality(DOMAIN fm.files)

\* TextSearchHeadingImpl.matches: the file matches of the folder matches (the
\* elements of the array; no file match is in two folder matches)
matches(st, h) ==
  LET ids == folderMatches(st, h)
  IN  UNION {{FileElem(ids[i], u) : u \in DOMAIN st.fms[ids[i]].files} : i \in 1 .. Len(ids)}

\* TextSearchHeadingImpl.count: the matches of the file matches, summed folder
\* match by folder match
count(st, h) ==
  LET ids == folderMatches(st, h)
  IN  SumOver([i \in 1 .. Len(ids) |-> folderMatchCount(st.fms[ids[i]])], 1 .. Len(ids))

\* TextSearchHeadingImpl.fileCount
fileCount(st, h) ==
  LET ids == folderMatches(st, h)
  IN  SumOver([i \in 1 .. Len(ids) |-> folderMatchFileCount(st.fms[ids[i]])], 1 .. Len(ids))

\* TextSearchHeadingImpl.isEmpty
isEmpty(st, h) ==
  LET ids == folderMatches(st, h)
  IN  \A i \in 1 .. Len(ids) : DOMAIN st.fms[ids[i]].files = {}

(***************************************************************************)
(* FolderMatch operations (folderMatch.ts), on the state                   *)
(* st = [fms, hd, gen, events]; events are the change events the headings  *)
(* have fired on the emitter of the search result during the operation.    *)
(***************************************************************************)
\* an IChangeEvent: the changed elements and what happened to them
changeEvent(elements, added, removed) ==
  [elements |-> elements, added |-> added, removed |-> removed]

\* a folder match fires a change event: its heading fires it in turn, and so
\* does the search result, until the folder match is disposed (the listener of
\* _createBaseFolderMatch is disposed with the folder match); the listener of
\* the heading's constructor sets _isDirty on an event that removes
fires(st, id, event) ==
  IF st.fms[id].disposed THEN st
  ELSE LET st1 == [st EXCEPT !.events = Append(@, event)]
       IN  IF event.removed
           THEN [st1 EXCEPT !.hd[id[1]].isDirty = ~isEmpty(st1, id[1])]
           ELSE st1

\* the loop of addFileMatch: creates the file match of each raw match or merges
\* the raw match into the existing one
RECURSIVE addEach(_, _, _)
addEach(st, id, raw) ==
  IF raw = <<>> THEN st
  ELSE LET r == Head(raw)
           old == st.fms[id].files
           merged == [u \in DOMAIN old \cup {r.resource} |->
                       IF u = r.resource
                       THEN (IF u \in DOMAIN old THEN old[u] ELSE {}) \cup r.matches
                       ELSE old[u]]
       IN  addEach([st EXCEPT !.fms[id].files = merged], id, Tail(raw))

\* FolderMatch.addFileMatch: one change event for the file matches it created
\* or updated
addFileMatch(st, id, raw) ==
  IF raw = <<>> THEN st
  ELSE fires(addEach(st, id, raw), id,
             changeEvent({FileElem(id, raw[i].resource) : i \in 1 .. Len(raw)},
                         \E i \in 1 .. Len(raw) : raw[i].resource \notin DOMAIN st.fms[id].files,
                         FALSE))

\* FolderMatch.clear: one removal event for the file matches it held
folderMatchClear(st, id) ==
  LET held == {FileElem(id, u) : u \in DOMAIN st.fms[id].files}
      after == [st EXCEPT !.fms[id].files = EmptyMap]
  IN  IF held = {} THEN after ELSE fires(after, id, changeEvent(held, FALSE, TRUE))

\* FolderMatch.dispose
folderMatchDispose(st, id) == [st EXCEPT !.fms[id].disposed = TRUE]

\* FolderMatch.remove: detaches the given file matches and fires one removal
\* event for them
folderMatchRemove(st, id, fileMatches) ==
  LET gone == {fileMatches[i].uri : i \in {j \in 1 .. Len(fileMatches) : fileMatches[j].fm = id}}
      old == st.fms[id].files
  IN  fires([st EXCEPT !.fms[id].files = [u \in DOMAIN old \ gone |-> old[u]]], id,
            changeEvent({FileElem(id, u) : u \in gone}, FALSE, TRUE))

\* ids.forEach(match => match.clear())
RECURSIVE clearEach(_, _)
clearEach(st, ids) ==
  IF ids = <<>> THEN st ELSE clearEach(folderMatchClear(st, Head(ids)), Tail(ids))

\* ids.forEach(match => match.dispose())
RECURSIVE disposeEach(_, _)
disposeEach(st, ids) ==
  IF ids = <<>> THEN st ELSE disposeEach(folderMatchDispose(st, Head(ids)), Tail(ids))

(***************************************************************************)
(* TextSearchHeadingImpl operations.                                       *)
(***************************************************************************)
\* the closure assigned to disposePastResults by the query setter; the initial
\* closure does nothing
disposePastResults(st, h) ==
  IF ~st.hd[h].pastArmed THEN st
  ELSE [disposeEach(clearEach(st, st.hd[h].past), st.hd[h].past)
          EXCEPT !.hd[h].isDirty = FALSE]

\* TextSearchHeadingImpl.groupFilesByFolder: byFolder maps the resource of each
\* rooted folder match to its raw matches; `failed` is set when the entry of a
\* resource is missing from byFolder (rawPerFolder.get(resource)!.push throws)
RECURSIVE groupFrom(_, _, _, _)
groupFrom(st, h, fileMatches, acc) ==
  IF fileMatches = <<>> THEN acc
  ELSE LET rawFileMatch == Head(fileMatches)
           folderMatch == getFolderMatch(st, h, rawFileMatch.resource)
           rest == Tail(fileMatches)
       IN  IF folderMatch = NoFm THEN groupFrom(st, h, rest, acc)
           ELSE LET resource == st.fms[folderMatch].resource
                IN  IF resource # NoResource
                    THEN IF resource \in DOMAIN acc.byFolder
                         THEN groupFrom(st, h, rest,
                                [acc EXCEPT !.byFolder[resource] = Append(@, rawFileMatch)])
                         ELSE [acc EXCEPT !.failed = TRUE]
                    ELSE groupFrom(st, h, rest,
                           [acc EXCEPT !.other = Append(@, rawFileMatch)])

\* a mutant of groupFilesByFolder: rawPerFolder is not filled with an entry per
\* folder match
groupFilesByFolderUnfilled(st, h, fileMatches) ==
  groupFrom(st, h, fileMatches, [byFolder |-> EmptyMap, other |-> <<>>, failed |-> FALSE])

groupFilesByFolder(st, h, fileMatches) ==
  LET ids == st.hd[h].folderMatches
      resources == {st.fms[ids[i]].resource : i \in 1 .. Len(ids)}
  IN  groupFrom(st, h, fileMatches,
        [byFolder |-> [r \in resources |-> <<>>], other |-> <<>>, failed |-> FALSE])

\* the resources of the rooted folder matches, in the order of the ResourceMap
\* that groupFilesByFolder fills (first insertion of each key)
RECURSIVE resourceOrder(_, _, _)
resourceOrder(st, ids, seen) ==
  IF ids = <<>> THEN <<>>
  ELSE LET r == st.fms[Head(ids)].resource
       IN  IF r \in seen THEN resourceOrder(st, Tail(ids), seen)
           ELSE <<r>> \o resourceOrder(st, Tail(ids), seen \cup {r})

\* byFolder.forEach of add: each non-empty group goes to the folder match that
\* getFolderMatch finds for its first raw match
RECURSIVE addGroups(_, _, _, _)
addGroups(st, h, byFolder, order) ==
  IF order = <<>> THEN st
  ELSE LET raw == byFolder[Head(order)]
           folderMatch == IF raw = <<>> THEN NoFm ELSE getFolderMatch(st, h, raw[1].resource)
       IN  addGroups(IF folderMatch = NoFm THEN st ELSE addFileMatch(st, folderMatch, raw),
                     h, byFolder, Tail(order))

\* a mutant of headingAdd: disposePastResults is not called
headingAddKeepsPast(st, h, allRaw, ai) ==
  LET g == groupFilesByFolder(st, h, allRaw)
      st1 == IF g.failed THEN st ELSE addGroups(st, h, g.byFolder, resourceOrder(st, st.hd[h].folderMatches, {}))
      st2 == IF ~ai /\ st1.hd[h].otherFilesMatch # NoFm
             THEN addFileMatch(st1, st1.hd[h].otherFilesMatch, g.other)
             ELSE st1
  IN  IF g.failed THEN st ELSE st2

\* TextSearchHeadingImpl.add (a throw of groupFilesByFolder leaves the state as
\* it was)
headingAdd(st, h, allRaw, ai) ==
  LET g == groupFilesByFolder(st, h, allRaw)
      st1 == IF g.failed THEN st ELSE addGroups(st, h, g.byFolder, resourceOrder(st, st.hd[h].folderMatches, {}))
      st2 == IF ~ai /\ st1.hd[h].otherFilesMatch # NoFm
             THEN addFileMatch(st1, st1.hd[h].otherFilesMatch, g.other)
             ELSE st1
  IN  IF g.failed THEN st ELSE disposePastResults(st2, h)

\* matches.forEach(m => { if (isFolderMatch(m)) m.clear(); }) of remove
RECURSIVE clearFolderElems(_, _)
clearFolderElems(st, elems) ==
  IF elems = <<>> THEN st
  ELSE clearFolderElems(IF isFolderMatch(Head(elems))
                        THEN folderMatchClear(st, Head(elems).fm) ELSE st,
                        Tail(elems))

\* byFolder.forEach of remove
RECURSIVE removeGroups(_, _, _, _)
removeGroups(st, h, byFolder, order) ==
  IF order = <<>> THEN st
  ELSE LET grouped == byFolder[Head(order)]
           folderMatch == IF grouped = <<>> THEN NoFm ELSE getFolderMatch(st, h, grouped[1].resource)
       IN  removeGroups(IF folderMatch = NoFm THEN st
                        ELSE folderMatchRemove(st, folderMatch, grouped),
                        h, byFolder, Tail(order))

\* a file match as groupFilesByFolder reads it: its resource is its URI
withResource(elems) ==
  [i \in 1 .. Len(elems) |->
     [kind |-> elems[i].kind, h |-> elems[i].h, fm |-> elems[i].fm, uri |-> elems[i].uri,
      m |-> elems[i].m, resource |-> elems[i].uri]]

\* TextSearchHeadingImpl.remove
headingRemove(st, h, elems) ==
  LET st1 == clearFolderElems(st, elems)
      fileMatches == withResource(SelectSeq(elems, isFileInstanceMatch))
      g == groupFilesByFolder(st1, h, fileMatches)
      st2 == removeGroups(st1, h, g.byFolder, resourceOrder(st1, st1.hd[h].folderMatches, {}))
      other == IF g.other = <<>> THEN NoFm ELSE getFolderMatch(st2, h, g.other[1].resource)
  IN  IF g.failed THEN st1
      ELSE IF other = NoFm THEN st2
      ELSE folderMatchRemove(st2, other, g.other)

\* TextSearchHeadingImpl.disposeMatches
disposeMatches(st, h) ==
  LET st1 == disposeEach(st, folderMatches(st, h))
  IN  [st1 EXCEPT !.hd[h].folderMatches = <<>>, !.hd[h].folderMatchesMap = EmptyMap]

\* TextSearchHeadingImpl.clear
headingClear(st, h) ==
  LET st1 == disposeMatches(clearEach(st, folderMatches(st, h)), h)
  IN  [st1 EXCEPT !.hd[h].folderMatches = <<>>, !.hd[h].otherFilesMatch = NoFm]

\* TextSearchHeadingImpl.dispose: disposeMatches, then the store of the
\* Disposable disposes what was registered, the folder matches the heading
\* created among it, then disposePastResults runs
headingDispose(st, h) ==
  LET st1 == disposeMatches(st, h)
      st2 == [st1 EXCEPT !.fms = [id \in DOMAIN @ |->
                                    IF id[1] = h THEN [@[id] EXCEPT !.disposed = TRUE]
                                    ELSE @[id]],
                         !.hd[h].isDisposed = TRUE]
  IN  disposePastResults(st2, h)

\* a mutant of hide: the heading is flagged and not cleared
hideWithoutClear(st, h) == [st EXCEPT !.hd[h].hidden = TRUE]

\* TextSearchHeadingImpl.hide
hide(st, h) == headingClear([st EXCEPT !.hd[h].hidden = TRUE], h)

\* the folder matches the query setter creates from query.folderQueries, and the
\* map filled from them (a later folder match of the same resource replaces an
\* earlier one)
createdFolderMatches(h, g, query) ==
  [i \in 1 .. Len(query.folderQueries) |-> <<h, g, i - 1>>]

RECURSIVE mapSetEach(_, _, _)
mapSetEach(map, ids, query) ==
  IF ids = <<>> THEN map
  ELSE LET id == Head(ids)
           resource == query.folderQueries[id[3] + 1]
       IN  mapSetEach([k \in DOMAIN map \cup {resource} |->
                         IF k = resource THEN id ELSE map[k]],
                      Tail(ids), query)

\* TextSearchHeadingImpl.query (setter); g names the folder matches it creates
setHeadingQuery(st, h, query, g) ==
  LET oldFolderMatches == folderMatches(st, h)
      st1 == [st EXCEPT !.hd[h].pastArmed = TRUE, !.hd[h].past = oldFolderMatches,
                        !.hd[h].folderMatchesMap = EmptyMap]
      created == createdFolderMatches(h, g, query)
      other == <<h, g, Len(created) + 1>>
      new == {created[i] : i \in 1 .. Len(created)}
               \cup (IF allowOtherResults(h) THEN {other} ELSE {})
      fms2 == [id \in DOMAIN st.fms \cup new |->
                IF id \in new
                THEN newFolderMatch(IF id = other THEN NoResource
                                    ELSE query.folderQueries[id[3] + 1])
                ELSE st.fms[id]]
  IN  IF query.null THEN st1
      ELSE [st1 EXCEPT !.fms = fms2,
                       !.hd[h].folderMatches = created,
                       !.hd[h].folderMatchesMap = mapSetEach(EmptyMap, created, query),
                       !.hd[h].otherFilesMatch =
                          IF allowOtherResults(h) THEN other ELSE @,
                       !.hd[h].query = query]

(***************************************************************************)
(* SearchResultImpl operations.                                            *)
(***************************************************************************)
\* SearchResultImpl.query (setter)
setQuery(st, query) ==
  LET st2 == setHeadingQuery(setHeadingQuery(st, PlainId, query, st.gen), AiId, query, st.gen)
  IN  st2

\* SearchResultImpl.textSearchResults
textSearchResults == <<PlainId, AiId>>

\* SearchResultImpl.query (getter)
searchResultQuery(st) == st.hd[PlainId].query

\* a mutant of add: the raw matches go to the plain heading whatever `ai` is
addToPlainOnly(st, allRaw, ai) ==
  headingAdd([st EXCEPT !.hd[PlainId].hidden = FALSE, !.hd[AiId].hidden = FALSE],
             PlainId, allRaw, ai)

\* SearchResultImpl.add
add(st, allRaw, ai) ==
  LET st1 == [st EXCEPT !.hd[PlainId].hidden = FALSE, !.hd[AiId].hidden = FALSE]
  IN  IF ai THEN headingAdd(st1, AiId, allRaw, ai)
      ELSE headingAdd(st1, PlainId, allRaw, ai)

\* SearchResultImpl.clear
clear(st) == headingClear(headingClear(st, AiId), PlainId)

\* SearchResultImpl.remove
remove(st, elems, ai) ==
  headingRemove(IF ai THEN headingRemove(st, AiId, elems) ELSE st, PlainId, elems)

\* the loop of SearchResultImpl.batchRemove: a heading is hidden, any other
\* element that is no "other files" folder match is noted in removedElems; the
\* result is the state and removedElems after the loop
RECURSIVE batchRemoveFrom(_, _, _)
batchRemoveFrom(st, elementsToRemove, removedElems) ==
  IF elementsToRemove = <<>> THEN [st |-> st, removedElems |-> removedElems]
  ELSE LET currentElement == Head(elementsToRemove)
           rest == Tail(elementsToRemove)
       IN  IF arrayContainsElementOrParent(currentElement, removedElems)
           THEN batchRemoveFrom(st, rest, removedElems)
           ELSE IF isTextSearchHeading(currentElement)
           THEN batchRemoveFrom(hide(st, currentElement.h), rest, removedElems)
           ELSE IF ~isFolderMatch(currentElement)
                   \/ st.fms[currentElement.fm].resource # NoResource
           THEN batchRemoveFrom(st, rest, Append(removedElems, currentElement))
           ELSE batchRemoveFrom(st, rest, removedElems)

\* SearchResultImpl.batchRemove (the emitter is paused and resumed around the
\* loop)
batchRemove(st, elementsToRemove) == batchRemoveFrom(st, elementsToRemove, <<>>).st

\* the elements batchRemove has processed for removal when it returns
removedElemsOf(st, elementsToRemove) ==
  batchRemoveFrom(st, elementsToRemove, <<>>).removedElems

\* SearchResultImpl.dispose: both headings are disposed, then the store of the
\* Disposable disposes the registered headings once more
searchResultDispose(st) ==
  headingDispose(headingDispose(headingDispose(headingDispose(st, AiId), PlainId),
                                PlainId), AiId)

\* a mutant of SearchResultImpl.count: the AI heading is left out
countPlainOnly(st) == count(st, PlainId)

\* SearchResultImpl.count
searchResultCount(st) == count(st, PlainId) + count(st, AiId)

\* SearchResultImpl.fileCount
searchResultFileCount(st) == fileCount(st, PlainId) + fileCount(st, AiId)

\* SearchResultImpl.matches(undefined)
searchResultMatches(st) == matches(st, PlainId) \cup matches(st, AiId)

(***************************************************************************)
(* Replace calls.  A replace is asynchronous: the call is issued, the      *)
(* replace collaborator works, and the call settles later, fulfilled or    *)
(* rejected.  `calls` holds the calls that have not settled.               *)
(***************************************************************************)
\* PlainTextSearchHeadingImpl.replacingAll (setter)
RECURSIVE setReplacingAll(_, _, _)
setReplacingAll(st, ids, running) ==
  IF ids = <<>> THEN st
  ELSE setReplacingAll([st EXCEPT !.fms[Head(ids)].replacingAll = running], Tail(ids), running)

\* the replace call a batch element starts: FolderMatch.replace for a file
\* match, FileMatch.replace for a match, FolderMatch.replaceAll for a folder
\* match (which replaces the file matches it has at the call)
replaceCall(st, elem, owner) ==
  [elem |-> elem, owner |-> owner,
   captured |-> IF isFolderMatch(elem) THEN DOMAIN st.fms[elem.fm].files ELSE {}]

\* a mutant of fulfil: a fulfilled replaceAll of the plain heading resets the
\* flag and does not clear the heading
fulfilWithoutClear(st, call) ==
  IF call.elem.kind = "heading"
  THEN setReplacingAll(st, folderMatches(st, call.elem.h), FALSE)
  ELSE st

\* what a fulfilled replace call does: the replaced match, file match or file
\* matches are removed from their folder match; a fulfilled replaceAll of the
\* plain heading resets the flag and clears the heading
fulfil(st, call) ==
  LET e == call.elem
      files == st.fms[e.fm].files
  IN  CASE e.kind = "heading" ->
             headingClear(setReplacingAll(st, folderMatches(st, e.h), FALSE), e.h)
        [] e.kind = "folder" ->
             fires([st EXCEPT !.fms[e.fm].files =
                                [u \in DOMAIN files \ call.captured |-> files[u]]],
                   e.fm, changeEvent({FileElem(e.fm, u) : u \in call.captured}, FALSE, TRUE))
        [] e.kind = "file" ->
             fires([st EXCEPT !.fms[e.fm].files = [u \in DOMAIN files \ {e.uri} |-> files[u]]],
                   e.fm, changeEvent({FileElem(e.fm, e.uri)}, FALSE, TRUE))
        [] OTHER ->
             IF e.uri \notin DOMAIN files THEN st
             ELSE fires(IF files[e.uri] \ {e.m} = {}
                        THEN [st EXCEPT !.fms[e.fm].files =
                                          [u \in DOMAIN files \ {e.uri} |-> files[u]]]
                        ELSE [st EXCEPT !.fms[e.fm].files[e.uri] = @ \ {e.m}],
                        e.fm, changeEvent({FileElem(e.fm, e.uri)}, FALSE, TRUE))

\* a mutant of reject: the rejection handler clears like the success handler
rejectAndClear(st, call) == fulfil(st, call)

\* what a rejected replace call does: a rejected replaceAll of the plain heading
\* resets the flag
reject(st, call) ==
  IF call.elem.kind = "heading"
  THEN setReplacingAll(st, folderMatches(st, call.elem.h), FALSE)
  ELSE st

\* a mutant of the skip test of batchReplace: no child is skipped
skipsNothing(elem, elementsToReplace) == FALSE

\* the skip test of batchReplace: the parent is a folder match or a file match
\* and the parent or one of its ancestors is in the batch
skips(elem, elementsToReplace) ==
  LET p == parent(elem)
  IN  (isFolderMatch(p) \/ isFileInstanceMatch(p))
        /\ arrayContainsElementOrParent(p, elementsToReplace)

\* the elements of the batch for which batchReplace starts a replace, in order
issuedBy(elementsToReplace) ==
  SelectSeq(elementsToReplace,
            LAMBDA elem : ~skips(elem, elementsToReplace)
                            /\ (isFileInstanceMatch(elem) \/ isSearchMatch(elem)
                                  \/ isFolderMatch(elem)))

(***************************************************************************)
(* The state machine.                                                      *)
(***************************************************************************)
(***************************************************************************)
(* The change emitter of the search result: a PauseableEmitter whose merge *)
(* function is mergeSearchResultEvents.  A channel ch = [em, heard] is the *)
(* emitter and the notifications its listener has received so far in the   *)
(* running operation.                                                      *)
(***************************************************************************)
\* mergeSearchResultEvents: the elements of all events, and each flag set when
\* one of the events sets it
mergeSearchResultEvents(events) ==
  changeEvent(UNION {events[i].elements : i \in 1 .. Len(events)},
              \E i \in 1 .. Len(events) : events[i].added,
              \E i \in 1 .. Len(events) : events[i].removed)

\* PauseableEmitter.pause
pause(ch) == [ch EXCEPT !.em.isPaused = @ + 1]

\* PauseableEmitter.fire: nothing happens without a listener; a paused emitter
\* queues the event, any other delivers it
fire(ch, event) ==
  IF ~listener.on THEN ch
  ELSE IF ch.em.isPaused # 0 THEN [ch EXCEPT !.em.queue = Append(@, event)]
  ELSE [ch EXCEPT !.heard = Append(@, event)]

\* PauseableEmitter.resume: the resume that undoes the outermost pause
\* delivers the queued events merged into one
resume(ch) ==
  IF ch.em.isPaused = 0 THEN ch
  ELSE IF ch.em.isPaused > 1 THEN [ch EXCEPT !.em.isPaused = @ - 1]
  ELSE IF ch.em.queue = <<>> THEN [ch EXCEPT !.em.isPaused = 0]
  ELSE [em |-> [isPaused |-> 0, queue |-> <<>>],
        heard |-> Append(ch.heard, mergeSearchResultEvents(ch.em.queue))]

\* the headings fire the events one after the other
RECURSIVE fireEach(_, _)
fireEach(ch, events) ==
  IF events = <<>> THEN ch ELSE fireEach(fire(ch, Head(events)), Tail(events))

\* the channel when an operation starts
channel == [em |-> emitter, heard |-> <<>>]

\* an operation that does not touch the emitter itself: what its headings
\* fire goes through the emitter as it is
relayed(events) == fireEach(channel, events)

\* a mutant of bracketed: the emitter is neither paused nor resumed
unbracketed(events) == fireEach(channel, events)

\* the events go through the emitter between a pause and a resume
\* (batchRemove; batchReplace whose replaces settle within one step)
bracketed(events) == resume(fireEach(pause(channel), events))

\* the step leaves the emitter as ch has it, and the listener with what the
\* headings fired and what it received during the step
announces(ch, events) ==
  /\ emitter' = ch.em
  /\ listener' = [on |-> listener.on,
                  fired |-> IF listener.on THEN events ELSE <<>>,
                  heard |-> ch.heard]

cur == [fms |-> fms, hd |-> hd, gen |-> gen, events |-> <<>>]

\* garbage collection: the folder matches that neither a heading, nor the armed
\* disposePastResults closure (while running it can still change something),
\* nor a pending replace call references are dropped, and gen becomes the least
\* generation none of the remaining ones carries
collectSearch(st, pending) ==
  LET inTree(h) == {folderMatches(st, h)[i] : i \in 1 .. Len(folderMatches(st, h))}
      keptPast(h) ==
        SelectSeq(st.hd[h].past,
                  LAMBDA id : id \in inTree(h) \/ ~st.fms[id].disposed
                                \/ DOMAIN st.fms[id].files # {})
      live == UNION {inTree(h) \cup {keptPast(h)[i] : i \in 1 .. Len(keptPast(h))} :
                       h \in AllHeadings}
                \cup ({c.elem.fm : c \in pending} \ {NoFm})
      used == {id[2] : id \in live}
  IN  [fms |-> [id \in live |-> st.fms[id]],
       hd |-> [h \in AllHeadings |-> [st.hd[h] EXCEPT !.past = keptPast(h)]],
       gen |-> CHOOSE g \in 0 .. Cardinality(used) :
                 g \notin used /\ \A k \in 0 .. g - 1 : k \in used,
       events |-> st.events]

becomes(st, pending) ==
  LET st1 == collectSearch(st, pending)
  IN  fms' = st1.fms /\ hd' = st1.hd /\ gen' = st1.gen

\* the elements of the result tree as it is
folderElems(st) ==
  UNION {{FolderElem(folderMatches(st, h)[i]) : i \in 1 .. Len(folderMatches(st, h))} :
           h \in Headings}
fileElems(st) == matches(st, PlainId) \cup matches(st, AiId)
matchElems(st) ==
  UNION {{MatchElem(e.fm, e.uri, m) : m \in st.fms[e.fm].files[e.uri]} : e \in fileElems(st)}
headingElems == {HeadingElem(h) : h \in Headings}
treeElems(st) == headingElems \cup folderElems(st) \cup fileElems(st) \cup matchElems(st)

\* the ancestors of an element: its parent and the parents above, up to the
\* heading
ancestors(e) ==
  CASE e.kind = "match" -> {FileElem(e.fm, e.uri), FolderElem(e.fm), HeadingElem(e.h)}
    [] e.kind = "file" -> {FolderElem(e.fm), HeadingElem(e.h)}
    [] e.kind = "folder" -> {HeadingElem(e.h)}
    [] OTHER -> {}

\* the batches batchRemove is called with: one element, or an element and one
\* of its ancestors in either order (two unrelated elements are handled one
\* after the other, as in two calls)
relatedBatchesOf(elems) ==
  {<<e>> : e \in elems}
    \cup UNION {{<<e, a>> : a \in ancestors(e) \cap elems}
                 \cup {<<a, e>> : a \in ancestors(e) \cap elems} : e \in elems}

\* the batches batchReplace is called with: one element or two distinct ones
batchesOf(elems) ==
  {<<e>> : e \in elems} \cup ({<<e1, e2>> : e1, e2 \in elems} \ {<<e, e>> : e \in elems})

SearchInit ==
  /\ fms = EmptyMap
  /\ hd = [h \in AllHeadings |-> newHeading]
  /\ gen = 0
  /\ emitter = [isPaused |-> 0, queue |-> <<>>]
  /\ calls = {}
  /\ batch = [pc |-> "idle", elements |-> <<>>, issued |-> <<>>]
  /\ listener = [on |-> FALSE, fired |-> <<>>, heard |-> <<>>]

\* a listener subscribes to onChange of the search result
Subscribe ==
  /\ ~listener.on
  /\ listener' = [on |-> TRUE, fired |-> <<>>, heard |-> <<>>]
  /\ UNCHANGED <<fms, hd, gen, emitter, calls, batch, nodes, last, group, issue>>

SetQuery(query) ==
  LET after == setQuery(cur, query)
  IN  /\ becomes(after, calls)
      /\ announces(relayed(after.events), after.events)
      /\ UNCHANGED <<calls, batch, nodes, last, group, issue>>

Add(allRaw, ai) ==
  LET after == add(cur, allRaw, ai)
  IN  /\ becomes(after, calls)
      /\ announces(relayed(after.events), after.events)
      /\ UNCHANGED <<calls, batch, nodes, last, group, issue>>

Remove(elems, ai) ==
  LET after == remove(cur, elems, ai)
  IN  /\ becomes(after, calls)
      /\ announces(relayed(after.events), after.events)
      /\ UNCHANGED <<calls, batch, nodes, last, group, issue>>

Clear ==
  LET after == clear(cur)
  IN  /\ becomes(after, calls)
      /\ announces(relayed(after.events), after.events)
      /\ UNCHANGED <<calls, batch, nodes, last, group, issue>>

\* batchRemove pauses the emitter, runs its loop and resumes the emitter
BatchRemove(elems) ==
  LET after == batchRemove(cur, elems)
  IN  /\ becomes(after, calls)
      /\ announces(bracketed(after.events), after.events)
      /\ UNCHANGED <<calls, batch, nodes, last, group, issue>>

Dispose ==
  LET after == searchResultDispose(cur)
  IN  /\ becomes(after, calls)
      /\ announces(relayed(after.events), after.events)
      /\ UNCHANGED <<calls, batch, nodes, last, group, issue>>

\* PlainTextSearchHeadingImpl.replaceAll up to the call of the replace
\* collaborator; one replaceAll is in flight at a time
ReplaceAllCall ==
  /\ \A c \in calls : c.owner # "replaceAll"
  /\ becomes(setReplacingAll(cur, folderMatches(cur, PlainId), TRUE), calls)
  /\ calls' = calls \cup {[elem |-> HeadingElem(PlainId), owner |-> "replaceAll", captured |-> {}]}
  /\ announces(relayed(<<>>), <<>>)
  /\ UNCHANGED <<batch, nodes, last, group, issue>>

\* SearchResultImpl.batchReplace up to its await: the emitter is paused and the
\* replace of every element that is not skipped is started; with nothing
\* started Promise.all fulfils and the emitter is resumed in the same turn
BatchReplaceCall(elementsToReplace) ==
  /\ batch.pc = "idle"
  /\ LET issued == issuedBy(elementsToReplace)
     IN  /\ calls' = calls \cup {replaceCall(cur, issued[i], "batch") : i \in 1 .. Len(issued)}
         /\ batch' = [pc |-> IF issued = <<>> THEN "fulfilled" ELSE "awaiting",
                      elements |-> elementsToReplace, issued |-> issued]
         /\ announces(IF issued = <<>> THEN bracketed(<<>>) ELSE pause(channel), <<>>)
  /\ UNCHANGED <<fms, hd, gen, nodes, last, group, issue>>

\* a replace call settles.  For a call of the batch, Promise.all rejects with
\* the first rejection and fulfils with the last fulfilment, and the `finally`
\* of batchReplace resumes the emitter in the same turn
CallSettle(call, ok) ==
  LET after == IF ok THEN fulfil(cur, call) ELSE reject(cur, call)
  IN  /\ call \in calls
      /\ calls' = calls \ {call}
      /\ becomes(after, calls \ {call})
      /\ IF call.owner = "batch" /\ batch.pc = "awaiting"
            /\ (~ok \/ \A c \in calls \ {call} : c.owner # "batch")
         THEN /\ batch' = [batch EXCEPT !.pc = IF ok THEN "fulfilled" ELSE "rejected"]
              /\ announces(resume(relayed(after.events)), after.events)
         ELSE /\ announces(relayed(after.events), after.events)
              /\ UNCHANGED batch
      /\ UNCHANGED <<trieVars, group, issue>>

SearchNext ==
  \/ \E query \in Queries : SetQuery(query)
  \/ \E allRaw \in RawBatches, ai \in BOOLEAN : Add(allRaw, ai)
  \/ \E e \in folderElems(cur) \cup fileElems(cur), ai \in BOOLEAN : Remove(<<e>>, ai)
  \/ Clear
  \/ \E elems \in relatedBatchesOf(treeElems(cur)) : BatchRemove(elems)
  \/ ReplaceAllCall
  \/ \E call \in calls, ok \in BOOLEAN : CallSettle(call, ok)

(***************************************************************************)
(* The filtered editor group models.  The group they filter is an ordered  *)
(* list of distinct editors whose first stickyCount editors are sticky.    *)
(* Indexes count from 0, as in the source.                                 *)
(***************************************************************************)
MaxEditors == 4
Editors == 1 .. MaxEditors
NoEditor == 0

\* Array.prototype.slice(from, to)
slice(seq, from, to) ==
  LET hi == IF to < Len(seq) THEN to ELSE Len(seq)
  IN  IF from >= hi THEN <<>> ELSE SubSeq(seq, from + 1, hi)

\* the group: count, getEditorByIndex, getIndexOfEditor, contains
groupCount(g) == Len(g.editors)
groupGetEditorByIndex(g, index) ==
  IF index >= 0 /\ index < Len(g.editors) THEN g.editors[index + 1] ELSE NoEditor
groupGetIndexOfEditor(g, editor) ==
  IF \E i \in 1 .. Len(g.editors) : g.editors[i] = editor
  THEN (CHOOSE i \in 1 .. Len(g.editors) : g.editors[i] = editor) - 1
  ELSE -1
groupContains(g, candidate) == \E i \in 1 .. Len(g.editors) : g.editors[i] = candidate

\* StickyEditorGroupModel
stickyCount(g) == g.stickyCount

\* a mutant of stickyEditors: the slice ends at the count of the group
stickyEditorsAll(g) == slice(g.editors, 0, groupCount(g))

stickyEditors(g) == slice(g.editors, 0, g.stickyCount)
stickyGetEditorByIndex(g, i) == groupGetEditorByIndex(g, i)
stickyGetIndexOfEditor(g, e) == groupGetIndexOfEditor(g, e)
stickyContains(g, candidate) ==
  groupContains(g, candidate) /\ groupGetIndexOfEditor(g, candidate) < g.stickyCount

\* UnstickyEditorGroupModel
unstickyCount(g) == groupCount(g) - g.stickyCount
unstickyEditors(g) == slice(g.editors, g.stickyCount, groupCount(g))
unstickyGetEditorByIndex(g, index) == groupGetEditorByIndex(g, index + g.stickyCount)
unstickyGetIndexOfEditor(g, editor) == groupGetIndexOfEditor(g, editor) + g.stickyCount
unstickyContains(g, candidate) ==
  groupContains(g, candidate) /\ groupGetIndexOfEditor(g, candidate) >= g.stickyCount

\* the list without its element at position i, and with x put before position i
without(seq, i) == SubSeq(seq, 1, i - 1) \o SubSeq(seq, i + 1, Len(seq))
putAt(seq, i, x) == SubSeq(seq, 1, i - 1) \o <<x>> \o SubSeq(seq, i, Len(seq))

GroupInit == group = [editors |-> <<>>, stickyCount |-> 0]

\* the group opens an editor behind the others
OpenEditor(editor) ==
  /\ ~groupContains(group, editor)
  /\ group' = [group EXCEPT !.editors = Append(@, editor)]
  /\ UNCHANGED <<trieVars, searchVars, issue>>

\* the group closes an editor
CloseEditor(editor) ==
  /\ groupContains(group, editor)
  /\ LET i == groupGetIndexOfEditor(group, editor)
     IN  group' = [editors |-> without(group.editors, i + 1),
                   stickyCount |-> IF i < group.stickyCount THEN group.stickyCount - 1
                                   ELSE group.stickyCount]
  /\ UNCHANGED <<trieVars, searchVars, issue>>

\* the group makes an editor sticky: it becomes the last of the sticky ones
Stick(editor) ==
  /\ unstickyContains(group, editor)
  /\ LET i == groupGetIndexOfEditor(group, editor)
     IN  group' = [editors |-> putAt(without(group.editors, i + 1), group.stickyCount + 1, editor),
                   stickyCount |-> group.stickyCount + 1]
  /\ UNCHANGED <<trieVars, searchVars, issue>>

\* the group makes an editor unsticky: it becomes the first of the others
Unstick(editor) ==
  /\ stickyContains(group, editor)
  /\ LET i == groupGetIndexOfEditor(group, editor)
     IN  group' = [editors |-> putAt(without(group.editors, i + 1), group.stickyCount, editor),
                   stickyCount |-> group.stickyCount - 1]
  /\ UNCHANGED <<trieVars, searchVars, issue>>

GroupNext ==
  \/ \E editor \in Editors : OpenEditor(editor)
  \/ \E editor \in Editors : CloseEditor(editor)
  \/ \E editor \in Editors : Stick(editor)
  \/ \E editor \in Editors : Unstick(editor)

(***************************************************************************)
(* IssueFormService (issueFormService.ts).                                 *)
(***************************************************************************)
MaxWindows == 3
NoWindow == 0

\* issueReporterWindow: the field, NoWindow for null; opening: the calls of
\* auxiliaryWindowService.open that have not resolved; windows: the auxiliary
\* windows opened and not closed; loading: the windows whose
\* openAuxIssueReporter awaits whenStylesHaveLoaded; listeners: the
\* beforeunload listeners as <<window listened on, window the listener closes>>;
\* created: the number of windows opened so far; focused: the window focused last
IssueInit ==
  issue = [issueReporterWindow |-> NoWindow, opening |-> 0, windows |-> {},
           loading |-> {}, listeners |-> {}, created |-> 0, focused |-> NoWindow]

\* openReporter(data); known: data.extensionId is in extensionIdentifierSet.
\* openAuxIssueReporter is called and not awaited: it runs up to its first await
openReporter(is, known) ==
  IF known \/ is.issueReporterWindow # NoWindow
  THEN [is EXCEPT !.focused = IF is.issueReporterWindow # NoWindow
                               THEN is.issueReporterWindow ELSE @]
  ELSE [is EXCEPT !.opening = @ + 1]

\* openAuxIssueReporter after `await auxiliaryWindowService.open(...)`
auxiliaryWindowOpened(is) ==
  LET window == is.created + 1
  IN  [is EXCEPT !.opening = @ - 1, !.created = window,
                 !.windows = @ \cup {window}, !.loading = @ \cup {window},
                 !.issueReporterWindow = window]

\* openAuxIssueReporter after `await auxiliaryWindow.whenStylesHaveLoaded`:
\* the listener is added to the window the field holds now
stylesHaveLoaded(is, window) ==
  [is EXCEPT !.loading = @ \ {window},
             !.listeners = IF is.issueReporterWindow # NoWindow
                           THEN @ \cup {<<is.issueReporterWindow, window>>} ELSE @]

\* the windows that close when those of ws do: a beforeunload listener closes
\* its auxiliary window
RECURSIVE closing(_, _, _)
closing(is, ws, fuel) ==
  LET more == ws \cup {l[2] : l \in {m \in is.listeners : m[1] \in ws}}
  IN  IF fuel = 0 \/ more = ws THEN ws ELSE closing(is, more, fuel - 1)

\* a window closes: its beforeunload listeners run
unload(is, window) ==
  LET gone == closing(is, {window}, MaxWindows) \cap is.windows
  IN  [is EXCEPT !.windows = @ \ gone,
                 !.issueReporterWindow =
                   IF \E l \in is.listeners : l[1] \in gone THEN NoWindow ELSE @]

\* closeReporter()
closeReporter(is) ==
  IF is.issueReporterWindow \in is.windows THEN unload(is, is.issueReporterWindow) ELSE is

OpenReporter(known) ==
  /\ known \/ issue.issueReporterWindow # NoWindow
       \/ issue.created + issue.opening < MaxWindows
  /\ issue' = openReporter(issue, known)
  /\ UNCHANGED <<trieVars, searchVars, group>>

AuxiliaryWindowOpened ==
  /\ issue.opening > 0
  /\ issue' = auxiliaryWindowOpened(issue)
  /\ UNCHANGED <<trieVars, searchVars, group>>

StylesHaveLoaded(window) ==
  /\ window \in issue.loading
  /\ issue' = stylesHaveLoaded(issue, window)
  /\ UNCHANGED <<trieVars, searchVars, group>>

\* the user closes a window
WindowCloses(window) ==
  /\ window \in issue.windows
  /\ issue' = unload(issue, window)
  /\ UNCHANGED <<trieVars, searchVars, group>>

CloseReporter ==
  /\ issue.issueReporterWindow # NoWindow
  /\ issue' = closeReporter(issue)
  /\ UNCHANGED <<trieVars, searchVars, group>>

IssueNext ==
  \/ \E known \in BOOLEAN : OpenReporter(known)
  \/ AuxiliaryWindowOpened
  \/ \E window \in 1 .. MaxWindows : StylesHaveLoaded(window)
  \/ \E window \in 1 .. MaxWindows : WindowCloses(window)
  \/ CloseReporter

\* the state after construction: an empty trie, an empty search result, an
\* empty editor group and an issue form service without window
Init == TrieInit /\ SearchInit /\ GroupInit /\ IssueInit

SpecGroup == Init /\ [][GroupNext]_vars

SpecIssue == Init /\ [][IssueNext]_vars

SpecTrie == Init /\ [][TrieNext]_vars

SpecSearch == Init /\ [][SearchNext]_vars

\* batchReplace on a result that one query assignment and adds have filled: the
\* result is filled while no batch has been started, one batch is started, and
\* its replace calls settle in any order, each fulfilled or rejected
BatchNext ==
  \/ /\ batch.pc = "idle"
     /\ hd[PlainId].query.null
     /\ SetQuery(Query(<<RootW>>))
  \/ /\ batch.pc = "idle"
     /\ \E allRaw \in RawBatches, ai \in BOOLEAN : Add(allRaw, ai)
  \/ \E elems \in batchesOf(treeElems(cur)) : BatchReplaceCall(elems)
  \/ \E call \in calls, ok \in BOOLEAN : CallSettle(call, ok)

SpecBatch == Init /\ [][BatchNext]_vars

(***************************************************************************)
(* Properties of SearchResultImpl.                                         *)
(***************************************************************************)
\* the matches shown under a heading, counted one by one
matchesUnder(h) == {e \in matchElems(cur) : e.h = h}

\* C1: after any sequence of SearchResult operations, count() of the search
\* result is the sum of count() of the plain heading and count() of the AI
\* heading, each being the number of matches under that heading
CountIsSum ==
  /\ searchResultCount(cur) = count(cur, PlainId) + count(cur, AiId)
  /\ searchResultCount(cur)
       = Cardinality(matchesUnder(PlainId)) + Cardinality(matchesUnder(AiId))

\* both headings hold matches, and not the same number
CountIsSumWitness == count(cur, PlainId) = 3 /\ count(cur, AiId) = 2

\* the file matches under a heading with their ranges
contents(st, h) == {<<e.uri, st.fms[e.fm].files[e.uri]>> : e \in matches(st, h)}

next == [fms |-> fms', hd |-> hd', gen |-> gen', events |-> <<>>]

\* C8: a step of add(allRaw, id, ai, silent) leaves the file matches and the
\* counts of the heading that `ai` does not select as they were, changes those
\* of the selected heading only by what the raw matches bring, and ends with
\* both headings not hidden
AddRoutes ==
  [][\A allRaw \in RawBatches, ai \in BOOLEAN :
       Add(allRaw, ai) =>
         LET other == IF ai THEN PlainId ELSE AiId
             target == IF ai THEN AiId ELSE PlainId
         IN  /\ contents(next, other) = contents(cur, other)
             /\ count(next, other) = count(cur, other)
             /\ fileCount(next, other) = fileCount(cur, other)
             /\ \A c \in contents(next, target) \ contents(cur, target) :
                  \E i \in 1 .. Len(allRaw) :
                    allRaw[i].resource = c[1] /\ allRaw[i].matches \subseteq c[2]
             /\ ~hd'[PlainId].hidden /\ ~hd'[AiId].hidden]_vars

\* adds with ai = true have filled the AI heading while the plain heading, with
\* a query assigned, holds nothing; no heading is hidden
AddRoutesWitness ==
  /\ count(cur, AiId) > 0 /\ count(cur, PlainId) = 0
  /\ ~hd[PlainId].query.null
  /\ ~hd[PlainId].hidden /\ ~hd[AiId].hidden

\* how often batchReplace started a replace for the element
timesIssued(e) == Cardinality({i \in 1 .. Len(batch.issued) : batch.issued[i] = e})

batchElements == {batch.elements[i] : i \in 1 .. Len(batch.elements)}

\* no two replaces the batch started cover the same match
noMatchTwice ==
  \A i, j \in 1 .. Len(batch.issued) :
    i # j => /\ batch.issued[i] # batch.issued[j]
             /\ batch.issued[i] \notin ancestors(batch.issued[j])

\* C9 as stated: batchReplace of distinct elements starts no replace for an
\* element that has a folder match or a file match among its ancestors in the
\* batch, and exactly one for every other file match, match or folder match of
\* the batch; no match is replaced twice
BatchReplaceOncePerElement ==
  batch.pc # "idle" =>
    /\ \A e \in batchElements :
         timesIssued(e) =
           IF isTextSearchHeading(e) THEN 0
           ELSE IF \E a \in ancestors(e) :
                     (isFolderMatch(a) \/ isFileInstanceMatch(a)) /\ a \in batchElements
           THEN 0 ELSE 1
    /\ noMatchTwice

\* C9, amended: batchReplace of distinct elements starts no replace for a file
\* match or a match that has an ancestor (file match, folder match or heading)
\* in the batch, and exactly one for every other file match, match or folder
\* match of the batch; no match is replaced twice
BatchReplaceSkipsDescendants ==
  batch.pc # "idle" =>
    /\ \A e \in batchElements :
         timesIssued(e) =
           IF isTextSearchHeading(e) THEN 0
           ELSE IF (isFileInstanceMatch(e) \/ isSearchMatch(e))
                     /\ \E a \in ancestors(e) : a \in batchElements
           THEN 0 ELSE 1
    /\ noMatchTwice

\* a batch of a folder match and a file match of it: one replace was started,
\* for the folder match
BatchReplaceSkipsDescendantsWitness ==
  /\ batch.pc # "idle"
  /\ Len(batch.elements) = 2
  /\ \E e \in batchElements :
       isFileInstanceMatch(e) /\ FolderElem(e.fm) \in batchElements
  /\ Len(batch.issued) = 1

\* C10: when batchReplace has resumed the emitter and its promise has settled,
\* no replace that the batch started is pending
BatchReplaceAwaitsAll ==
  batch.pc \in {"fulfilled", "rejected"} => \A c \in calls : c.owner # "batch"

\* C11: in every batch that batchRemove is called with, whatever its order, no
\* element is processed for removal together with a folder match or file match
\* among its ancestors
BatchRemoveOncePerSubtree ==
  \A elems \in relatedBatchesOf(treeElems(cur)) :
    LET removed == removedElemsOf(cur, elems)
    IN  \A i, j \in 1 .. Len(removed) :
          ~(removed[j] \in ancestors(removed[i])
              /\ (isFolderMatch(removed[j]) \/ isFileInstanceMatch(removed[j])))

\* C13: when the query of a heading is replaced, by a query or by null, no
\* folder match that the heading had for the previous query is in
\* folderMatches() afterwards (the part of the claim that its second part, the
\* disposal of these folder matches, builds on)
QueryDropsOldFolderMatches ==
  \A query \in Queries, h \in Headings :
    LET old == folderMatches(cur, h)
        new == folderMatches(setQuery(cur, query), h)
    IN  \A i \in 1 .. Len(old) : ~includes(new, old[i])

\* C14: after SearchResult.query is assigned q, a query or null, the query of
\* the plain heading and of the AI heading is q and the getter returns q
QueryFansOut ==
  \A query \in Queries :
    LET after == setQuery(cur, query)
    IN  /\ after.hd[PlainId].query = query
        /\ after.hd[AiId].query = query
        /\ searchResultQuery(after) = query

(***************************************************************************)
(* Queries with nested and with duplicate folder roots.                    *)
(***************************************************************************)
NestedD == <<"w", "d">>
FileInD == <<"w", "d", "g">>
RawInD == [resource |-> FileInD, matches |-> {1}]
RootQueries == {Query(<<RootW, NestedD>>), Query(<<RootW, RootW>>), NullQuery}
RootRawBatches == {<<RawInW>>, <<RawInD>>, <<RawInD, RawInW>>}

RootsNext ==
  \/ \E query \in RootQueries : SetQuery(query)
  \/ \E allRaw \in RootRawBatches, ai \in BOOLEAN : Add(allRaw, ai)
  \/ \E elem \in folderElems(cur) \cup fileElems(cur), ai \in BOOLEAN : Remove(<<elem>>, ai)
  \/ Clear

SpecRoots == Init /\ [][RootsNext]_vars

\* the folder matches of the heading that hold a file match of the URI
ownersOf(h, uri) ==
  {i \in 1 .. Len(folderMatches(cur, h)) : uri \in DOMAIN fms[folderMatches(cur, h)[i]].files}

\* the roots of the heading's folder matches that the URI is under
rootsAbove(h, uri) ==
  {fms[hd[h].folderMatches[i]].resource : i \in 1 .. Len(hd[h].folderMatches)}
    \cap {r \in {RootW, NestedD} : isPrefixOf(r, uri)}

\* C15: within a heading no URI has file matches in two folder matches, and a
\* URI under several nested roots has its file match in the folder match that
\* getFolderMatch returns for it
OneOwnerPerUri ==
  \A h \in Headings, uri \in Files \cup {FileInD} :
    /\ Cardinality(ownersOf(h, uri)) <= 1
    /\ Cardinality(rootsAbove(h, uri)) > 1 =>
         \A i \in ownersOf(h, uri) : folderMatches(cur, h)[i] = getFolderMatch(cur, h, uri)

\* the replacingAll flags of the folder matches of the plain heading
replacingAllFlags(st) ==
  {st.fms[folderMatches(st, PlainId)[i]].replacingAll :
     i \in 1 .. Len(folderMatches(st, PlainId))}

\* C16: when the replace collaborator rejects a replaceAll, the rejection
\* handler leaves every folder match of the plain heading with replacingAll
\* false and leaves the folder matches, the file matches and the counts of the
\* heading as they were; the call of replaceAll itself changes none of them
ReplaceAllRejectedKeepsResults ==
  /\ LET called == setReplacingAll(cur, folderMatches(cur, PlainId), TRUE)
     IN  /\ folderMatches(called, PlainId) = folderMatches(cur, PlainId)
         /\ contents(called, PlainId) = contents(cur, PlainId)
  /\ \A call \in calls :
       call.owner = "replaceAll" =>
         LET after == reject(cur, call)
         IN  /\ replacingAllFlags(after) \subseteq {FALSE}
             /\ folderMatches(after, PlainId) = folderMatches(cur, PlainId)
             /\ contents(after, PlainId) = contents(cur, PlainId)
             /\ count(after, PlainId) = count(cur, PlainId)
             /\ fileCount(after, PlainId) = fileCount(cur, PlainId)

\* replaceAll is waiting for the replace collaborator, the folder matches are
\* flagged and the plain heading holds matches
ReplaceAllRejectedKeepsResultsWitness ==
  /\ \E call \in calls : call.owner = "replaceAll"
  /\ replacingAllFlags(cur) = {TRUE}
  /\ count(cur, PlainId) = 3

(***************************************************************************)
(* Disposal: the result is filled, disposed any number of times, and used  *)
(* after it was disposed.                                                  *)
(***************************************************************************)
DisposeNext ==
  \/ \E query \in Queries : SetQuery(query)
  \/ \E allRaw \in RawBatches, ai \in BOOLEAN : Add(allRaw, ai)
  \/ \E elem \in folderElems(cur) \cup fileElems(cur), ai \in BOOLEAN : Remove(<<elem>>, ai)
  \/ Dispose

SpecDispose == Init /\ [][DisposeNext]_vars

\* C17: once a heading is disposed, folderMatches() and getFolderMatch return
\* no disposed folder match, and add hands no raw match to a disposed folder
\* match
DisposedIsGuarded ==
  \A h \in Headings :
    hd[h].isDisposed =>
      /\ \A i \in 1 .. Len(folderMatches(cur, h)) : ~fms[folderMatches(cur, h)[i]].disposed
      /\ \A uri \in Files :
           getFolderMatch(cur, h, uri) # NoFm => ~fms[getFolderMatch(cur, h, uri)].disposed
      /\ \A allRaw \in RawBatches, ai \in BOOLEAN :
           \A id \in DOMAIN fms :
             fms[id].disposed =>
               DOMAIN headingAdd(cur, h, allRaw, ai).fms[id].files \subseteq DOMAIN fms[id].files

\* C18: no replace call that batchReplace has started is for a folder match,
\* file match or match of the AI heading
AiNeverReplaced == \A call \in calls : call.elem.h # AiId

\* C19: after batchRemove(elements) no file match listed in elements is in
\* matches(), no match listed in elements is in its file match, and count() is
\* smaller than before when such an element was listed
BatchRemoveRemoves ==
  \A elems \in relatedBatchesOf(treeElems(cur)) :
    LET after == batchRemove(cur, elems)
    IN  \A i \in 1 .. Len(elems) :
          /\ isFileInstanceMatch(elems[i]) =>
               /\ elems[i] \notin searchResultMatches(after)
               /\ searchResultFileCount(after) < searchResultFileCount(cur)
          /\ (isFileInstanceMatch(elems[i]) \/ isSearchMatch(elems[i])) =>
               /\ elems[i].uri \in DOMAIN after.fms[elems[i].fm].files =>
                    elems[i].m \notin after.fms[elems[i].fm].files[elems[i].uri]
               /\ searchResultCount(after) < searchResultCount(cur)

\* C20: after batchRemove(elements) every heading listed in elements is hidden,
\* has no folder matches and count 0, is still one of textSearchResults, and
\* any add that follows leaves it not hidden
BatchRemoveHidesHeading ==
  \A elems \in relatedBatchesOf(treeElems(cur)) :
    LET after == batchRemove(cur, elems)
    IN  \A i \in 1 .. Len(elems) :
          isTextSearchHeading(elems[i]) =>
            /\ after.hd[elems[i].h].hidden
            /\ folderMatches(after, elems[i].h) = <<>>
            /\ count(after, elems[i].h) = 0
            /\ includes(textSearchResults, elems[i].h)
            /\ \A allRaw \in RawBatches, ai \in BOOLEAN :
                 ~add(after, allRaw, ai).hd[elems[i].h].hidden

\* a heading that had a query and folder matches is hidden and empty, the other
\* heading still holds matches
BatchRemoveHidesHeadingWitness ==
  \E h, k \in Headings :
    /\ hd[h].hidden /\ ~hd[h].query.null /\ folderMatches(cur, h) = <<>>
    /\ ~hd[k].hidden /\ count(cur, k) > 0

(***************************************************************************)
(* The change events of a search result that has a listener: the listener  *)
(* subscribes first, one query assignment and adds fill the result, and    *)
(* removals, batch removals, one batch replace and the settling of its     *)
(* replace calls change it.                                                *)
(***************************************************************************)
\* the batches of EventsNext: the adds bring a file in the root and one outside
\* it, and the batch removals are of headings and folder matches (batchRemove
\* changes nothing for a file match or a match)
EventRawBatches == {<<RawInW, RawOutside>>}
removalBatches == relatedBatchesOf(headingElems \cup folderElems(cur))

EventsNext ==
  \/ /\ hd[PlainId].query.null
     /\ Subscribe
  \/ /\ listener.on
     /\ hd[PlainId].query.null
     /\ SetQuery(Query(<<RootW>>))
  \/ /\ listener.on
     /\ batch.pc = "idle"
     /\ \E allRaw \in EventRawBatches, ai \in BOOLEAN : Add(allRaw, ai)
  \/ /\ listener.on
     /\ \E e \in matches(cur, PlainId) : Remove(<<e>>, FALSE)
  \/ /\ listener.on
     /\ \E elems \in removalBatches : BatchRemove(elems)
  \/ /\ listener.on
     /\ \E elems \in batchesOf(folderElems(cur) \cup fileElems(cur)) : BatchReplaceCall(elems)
  \/ \E call \in calls, ok \in BOOLEAN : CallSettle(call, ok)

SpecEvents == Init /\ [][EventsNext]_vars

\* C12: while the change emitter of the search result is paused, the events
\* the headings fire are queued behind the ones already queued and the listener
\* receives nothing; the resume that ends the pause, at the end of the step or
\* of a batchRemove within the step, empties the queue and gives the listener
\* exactly one notification, the merge of all events queued during the pause;
\* events fired while the emitter is not paused reach the listener one for one
PausedEventsAreMerged ==
  [][listener.on =>
       LET all == emitter.queue \o listener'.fired
           merged == [elements |-> UNION {all[i].elements : i \in 1 .. Len(all)},
                      added |-> \E i \in 1 .. Len(all) : all[i].added,
                      removed |-> \E i \in 1 .. Len(all) : all[i].removed]
       IN  IF emitter'.isPaused # 0
           THEN listener'.heard = <<>> /\ emitter'.queue = all
           ELSE /\ emitter'.queue = <<>>
                /\ IF emitter.isPaused # 0 \/ \E elems \in removalBatches : BatchRemove(elems)
                   THEN listener'.heard = IF all = <<>> THEN <<>> ELSE <<merged>>
                   ELSE listener'.heard = listener'.fired]_vars

\* the last replace call of a batchReplace has just been fulfilled: its one
\* event and the event queued before it have reached the listener as one
\* notification on resume
PausedEventsAreMergedWitness ==
  /\ listener.on
  /\ batch.pc = "fulfilled"
  /\ emitter.isPaused = 0 /\ emitter.queue = <<>>
  /\ Len(listener.fired) = 1
  /\ Len(listener.heard) = 1
  /\ Cardinality(listener.heard[1].elements) = 2
  /\ listener.heard # listener.fired
(***************************************************************************)
(* The teardown of the folder matches of the previous query.               *)
(***************************************************************************)
\* a generation no folder match of st carries
unusedGen(st) ==
  CHOOSE g \in 0 .. Cardinality(DOMAIN st.fms) : \A id \in DOMAIN st.fms : id[2] # g

\* the folder matches a heading holds when a query is assigned to it
heldBy(st, h) == {folderMatches(st, h)[i] : i \in 1 .. Len(folderMatches(st, h))}

\* the folder match has been cleared and disposed
tornDown(st, id) == DOMAIN st.fms[id].files = {} /\ st.fms[id].disposed

rootsOver(st, h, resource) ==
  {id \in {st.hd[h].folderMatches[i] : i \in 1 .. Len(st.hd[h].folderMatches)} :
     isPrefixOf(st.fms[id].resource, resource)}

\* the folder match holds the matches of the raw match under its resource
holdsRaw(st, id, raw) ==
  /\ id \in DOMAIN st.fms
  /\ raw.resource \in DOMAIN st.fms[id].files
  /\ raw.matches \subseteq st.fms[id].files[raw.resource]

\* the raw match has reached a folder match whose root it lies under or, when
\* it lies under no root, the "other files" folder match
dispatched(before, after, h, raw) ==
  IF rootsOver(before, h, raw.resource) # {}
  THEN \E id \in rootsOver(before, h, raw.resource) : holdsRaw(after, id, raw)
  ELSE holdsRaw(after, before.hd[h].otherFilesMatch, raw)

\* C22: on a heading with a query set, add with either value of `ai` leaves
\* every raw match in the folder match of the root it lies under, and every
\* raw match under no root in the "other files" folder match
AddDispatchesEveryRaw ==
  \A h \in Headings :
    ~hd[h].query.null =>
      \A allRaw \in RawBatches, ai \in BOOLEAN :
        LET after == headingAdd(cur, h, allRaw, ai)
        IN  \A i \in 1 .. Len(allRaw) : dispatched(cur, after, h, allRaw[i])
(***************************************************************************)
(* Lookup misses.  The heading on its own, without other results, is       *)
(* driven by its own operations next to the headings of the search result. *)
(***************************************************************************)
\* the elements remove is called with on the heading: its folder matches and
\* file matches, and a file match that is not in it
loneElems ==
  {FolderElem(folderMatches(cur, LoneId)[i]) : i \in 1 .. Len(folderMatches(cur, LoneId))}
    \cup matches(cur, LoneId)
    \cup {FileElem(<<LoneId, 0, 0>>, FileOutside)}

LoneQuery(query) ==
  /\ becomes(setHeadingQuery(cur, LoneId, query, cur.gen), calls)
  /\ UNCHANGED <<emitter, listener, calls, batch, nodes, last, group, issue>>

LoneAdd(allRaw, ai) ==
  /\ becomes(headingAdd(cur, LoneId, allRaw, ai), calls)
  /\ UNCHANGED <<emitter, listener, calls, batch, nodes, last, group, issue>>

LoneRemove(elems) ==
  /\ becomes(headingRemove(cur, LoneId, elems), calls)
  /\ UNCHANGED <<emitter, listener, calls, batch, nodes, last, group, issue>>

LoneClear ==
  /\ becomes(headingClear(cur, LoneId), calls)
  /\ UNCHANGED <<emitter, listener, calls, batch, nodes, last, group, issue>>

LoneHide ==
  /\ becomes(hide(cur, LoneId), calls)
  /\ UNCHANGED <<emitter, listener, calls, batch, nodes, last, group, issue>>

\* the heading is as constructed
untouched(h) == hd[h] = newHeading

\* the two objects share nothing, so a behaviour drives the one or the other
HeadingNext ==
  \/ /\ untouched(LoneId)
     /\ \/ \E query \in Queries : SetQuery(query)
        \/ \E allRaw \in RawBatches : Add(allRaw, FALSE)
        \/ Clear
        \/ BatchRemove(<<HeadingElem(PlainId)>>)
  \/ /\ untouched(PlainId) /\ untouched(AiId)
     /\ \/ \E query \in Queries : LoneQuery(query)
        \/ \E allRaw \in RawBatches, ai \in BOOLEAN : LoneAdd(allRaw, ai)
        \/ \E e \in loneElems : LoneRemove(<<e>>)
        \/ LoneClear
        \/ LoneHide

SpecHeading == Init /\ [][HeadingNext]_vars
\* the file matches remove may be called with on heading h: one per folder
\* match that exists and file, in the tree or not
staleFileElems(h) == {FileElem(id, uri) : id \in {i \in DOMAIN fms : i[1] = h}, uri \in Files}

\* no folder match of st has a file match or a match that it has not in the
\* current state
nothingGained(st) ==
  \A id \in DOMAIN st.fms :
    /\ id \in DOMAIN fms
    /\ \A u \in DOMAIN st.fms[id].files :
         u \in DOMAIN fms[id].files /\ st.fms[id].files[u] \subseteq fms[id].files[u]

\* C23: in every state of a heading, with or without other results,
\* groupFilesByFolder finds the entry of every folder match the lookup returns
\* (add and remove do not throw); an add of raw matches the lookup finds no
\* folder match for adds nothing to any folder match, and a remove of a file
\* match the lookup finds no folder match for changes no folder match
LookupMissIsDropped ==
  \A h \in AllHeadings :
    /\ \A allRaw \in RawBatches, ai \in BOOLEAN :
         /\ ~groupFilesByFolder(cur, h, allRaw).failed
         /\ (\A i \in 1 .. Len(allRaw) : getFolderMatch(cur, h, allRaw[i].resource) = NoFm)
              => nothingGained(headingAdd(cur, h, allRaw, ai))
    /\ \A e \in staleFileElems(h) :
         /\ ~groupFilesByFolder(cur, h, withResource(<<e>>)).failed
         /\ getFolderMatch(cur, h, e.uri) = NoFm
              => headingRemove(cur, h, <<e>>).fms = fms

\* the heading without other results has a query and a file match in its root,
\* and the lookup of a file outside the root finds no folder match
LookupMissIsDroppedWitness ==
  /\ ~hd[LoneId].query.null
  /\ hd[LoneId].folderMatchesMap # EmptyMap
  /\ matches(cur, LoneId) # {}
  /\ getFolderMatch(cur, LoneId, FileOutside) = NoFm
(***************************************************************************)
(* replaceAll of the plain heading, fulfilled.                             *)
(***************************************************************************)
\* a replaceAll of the plain heading is waiting for the replace collaborator
replaceAllPending(pending) == \E call \in pending : call.owner = "replaceAll"

\* a step that starts a replaceAll leaves every folder match of the plain
\* heading flagged, and a step during which it keeps waiting takes the flag
\* from no folder match
flaggedWhilePending ==
  /\ (~replaceAllPending(calls) /\ replaceAllPending(calls'))
       => \A id \in heldBy(next, PlainId) : fms'[id].replacingAll
  /\ (replaceAllPending(calls) /\ replaceAllPending(calls'))
       => \A id \in DOMAIN fms \cap DOMAIN fms' :
            fms[id].replacingAll => fms'[id].replacingAll

\* C24: the call of replaceAll flags every folder match of the plain heading;
\* while the replace collaborator has not settled, no step takes the flag from
\* a folder match that has it; and when the collaborator fulfils, the folder
\* matches the heading then has are unflagged and the heading is cleared:
\* folderMatches() is empty, isEmpty() is true and count() is 0
ReplaceAllFulfilledClears ==
  /\ [](\A call \in calls :
          call.owner = "replaceAll" =>
            LET after == fulfil(cur, call)
            IN  /\ \A id \in heldBy(cur, PlainId) : ~after.fms[id].replacingAll
                /\ folderMatches(after, PlainId) = <<>>
                /\ isEmpty(after, PlainId)
                /\ count(after, PlainId) = 0)
  /\ [][flaggedWhilePending]_vars

\* replaceAll is waiting for the replace collaborator on a plain heading that
\* holds a file match in its root and one outside it, in flagged folder matches
ReplaceAllFulfilledClearsWitness ==
  /\ replaceAllPending(calls)
  /\ Len(folderMatches(cur, PlainId)) = 2
  /\ \A id \in heldBy(cur, PlainId) : fms[id].replacingAll /\ DOMAIN fms[id].files # {}
(***************************************************************************)
(* The dirty flag of a heading.                                            *)
(***************************************************************************)
\* C25: a removal that leaves the heading non-empty leaves it dirty; a dirty
\* heading stays dirty under add; a heading is not dirty after the assignment
\* of a query
DirtyUntilClearedOrQuery ==
  \A h \in Headings :
    /\ \A e \in matches(cur, h) :
         LET after == headingRemove(cur, h, <<e>>)
         IN  ~isEmpty(after, h) => after.hd[h].isDirty
    /\ hd[h].isDirty =>
         \A allRaw \in RawBatches, ai \in BOOLEAN : headingAdd(cur, h, allRaw, ai).hd[h].isDirty
    /\ \A query \in Queries : ~setHeadingQuery(cur, h, query, cur.gen).hd[h].isDirty
(***************************************************************************)
(* The folder matches a heading returns.                                   *)
(***************************************************************************)
\* the folder matches the armed disposePastResults closure will clear and
\* dispose
toBeDisposed(st, h) ==
  IF st.hd[h].pastArmed THEN {st.hd[h].past[i] : i \in 1 .. Len(st.hd[h].past)} ELSE {}

\* the folder matches the lookup map leads to
mapped(st, h) == {st.hd[h].folderMatchesMap[k] : k \in DOMAIN st.hd[h].folderMatchesMap}

\* C26: in every state reached by query assignments, add, remove, clear and
\* hide, no folder match that folderMatches() returns is disposed or held by
\* disposePastResults for disposal, and the folder matches the lookup map leads
\* to are the rooted ones that folderMatches() returns
FolderMatchesAreLive ==
  \A h \in Headings :
    /\ \A id \in heldBy(cur, h) : ~fms[id].disposed /\ id \notin toBeDisposed(cur, h)
    /\ mapped(cur, h) = {id \in heldBy(cur, h) : fms[id].resource # NoResource}
(***************************************************************************)
(* replaceAll and what arrives while the replace collaborator works.       *)
(***************************************************************************)
\* the folder matches of the plain heading that a query assignment has created
\* since replaceAll was called: the call has flagged the ones it found
createdSinceCall(st) == {id \in heldBy(st, PlainId) : ~st.fms[id].replacingAll}

\* C27: when the replace collaborator fulfils, the folder matches created since
\* the call are still folder matches of the plain heading and have their file
\* matches, and no folder match is flagged replacingAll
ReplaceAllKeepsNewer ==
  \A call \in calls :
    call.owner = "replaceAll" =>
      LET after == fulfil(cur, call)
      IN  /\ createdSinceCall(cur) \subseteq heldBy(after, PlainId)
          /\ \A id \in createdSinceCall(cur) : after.fms[id].files = fms[id].files
          /\ \A id \in DOMAIN after.fms : ~after.fms[id].replacingAll
(***************************************************************************)
(* The filtered editor group models.                                       *)
(***************************************************************************)
\* C28: the counts of the sticky and the unsticky model add up to the count of
\* the group, the editors of the sticky model followed by those of the unsticky
\* model are the editors of the group, and every editor of the group is
\* contained by exactly one of the two models
FilteredModelsPartition ==
  /\ stickyCount(group) + unstickyCount(group) = groupCount(group)
  /\ stickyEditors(group) \o unstickyEditors(group) = group.editors
  /\ \A e \in Editors :
       groupContains(group, e) => (stickyContains(group, e) <=> ~unstickyContains(group, e))

\* a group with two sticky editors and two others
FilteredModelsPartitionWitness ==
  stickyCount(group) = 2 /\ unstickyCount(group) = 2

\* C29: in both filtered models, for every editor e the model contains,
\* getIndexOfEditor(e) lies in 0 .. count - 1, it is the position of e in the
\* editors of the model, and getEditorByIndex returns e for it
IndexRoundTrip ==
  \A e \in Editors :
    /\ stickyContains(group, e) =>
         LET i == stickyGetIndexOfEditor(group, e)
         IN  /\ i \in 0 .. stickyCount(group) - 1
             /\ stickyEditors(group)[i + 1] = e
             /\ stickyGetEditorByIndex(group, i) = e
    /\ unstickyContains(group, e) =>
         LET i == unstickyGetIndexOfEditor(group, e)
         IN  /\ i \in 0 .. unstickyCount(group) - 1
             /\ unstickyEditors(group)[i + 1] = e
             /\ unstickyGetEditorByIndex(group, i) = e

\* C30: the issue form service keeps at most one issue reporter window open:
\* whatever the interleaving of openReporter calls, among them a second call
\* made while the first still awaits the auxiliary window, at most one
\* auxiliary window has been opened and not closed
AtMostOneReporterWindow == Cardinality(issue.windows) <= 1

====
